---- MODULE Spec2Model ----
(***************************************************************************)
(* mcstatus-checker (src/main.rs): two HTTP handlers, status and           *)
(* status_json, that parse a host[:port] address, run one status query of  *)
(* the Minecraft protocol client under a deadline, and shape the outcome   *)
(* as a text response or as a JSON envelope.                               *)
(***************************************************************************)
EXTENDS Integers, Sequences, FiniteSets, TLC

\* ---------------------------------------------------------------- bounds
NumReqs == 2
MaxAddrLen == 7
MaxSample == 1

\* ------------------------------------------------------ program constants
DefaultPort == 25565
U16Max == 65535
TextDeadline == 2
JsonDeadline == 5
StatusOk200 == 200
StatusServiceUnavailable == 503

Reqs == 1..NumReqs
Endpoints == {"text", "json"}

\* Option<T> is a sequence of length at most one.
None == <<>>
Some(x) == <<x>>

\* ------------------------------------------------------- address strings
\* An address is a sequence of characters.  The alphabet has a letter, the
\* separator, a sign and a digit: enough for hosts, ports, signed ports and
\* ports beyond 16 bits.
Alphabet == {"a", ":", "+", "9"}

RECURSIVE StringsUpTo(_)
StringsUpTo(n) ==
    IF n = 0 THEN {<<>>}
    ELSE LET shorter == StringsUpTo(n - 1)
         IN  shorter \cup {Append(s, c) : s \in {t \in shorter : Len(t) = n - 1}, c \in Alphabet}

\* The router binds <address> to a non-empty path segment.
AllAddresses == {s \in StringsUpTo(MaxAddrLen) : Len(s) >= 1}

ProbeAddresses == {<<"a">>, <<"a", ":", "9">>}
JsonAddress == <<"a">>

\* str::split(":"): the segments between separators, at least one segment.
RECURSIVE SplitFrom(_, _, _)
SplitFrom(s, i, cur) ==
    IF i > Len(s) THEN <<cur>>
    ELSE IF s[i] = ":" THEN <<cur>> \o SplitFrom(s, i + 1, <<>>)
    ELSE SplitFrom(s, i + 1, Append(cur, s[i]))

Split(s) == SplitFrom(s, 1, <<>>)

\* Iterator::next on the split: the n-th call yields the n-th segment.
SplitNext(split, n) == IF n <= Len(split) THEN Some(split[n]) ELSE None

IsDigit(c) == c \in {"0", "1", "2", "3", "4", "5", "6", "7", "8", "9"}

DigitVal(c) ==
    CASE c = "0" -> 0 [] c = "1" -> 1 [] c = "2" -> 2 [] c = "3" -> 3
      [] c = "4" -> 4 [] c = "5" -> 5 [] c = "6" -> 6 [] c = "7" -> 7
      [] c = "8" -> 8 [] c = "9" -> 9

\* Mutant: the digit loop with wrapping instead of checked arithmetic.
RECURSIVE ParseDigitsWrapping(_, _)
ParseDigitsWrapping(digits, acc) ==
    IF digits = <<>> THEN Some(acc)
    ELSE IF ~IsDigit(Head(digits)) THEN None
    ELSE ParseDigitsWrapping(Tail(digits), (acc * 10 + DigitVal(Head(digits))) % (U16Max + 1))

\* The digit loop of u16::from_str: checked_mul(10) then checked_add(digit).
RECURSIVE ParseDigits(_, _)
ParseDigits(digits, acc) ==
    IF digits = <<>> THEN Some(acc)
    ELSE IF ~IsDigit(Head(digits)) THEN None
    ELSE IF acc * 10 > U16Max THEN None
    ELSE IF acc * 10 + DigitVal(Head(digits)) > U16Max THEN None
    ELSE ParseDigits(Tail(digits), acc * 10 + DigitVal(Head(digits)))

\* x.parse::<u16>().ok(): empty and lone-sign strings fail, one leading
\* "+" is skipped, a "-" is an invalid digit of an unsigned type.
ParseU16(seg) ==
    IF seg = <<>> THEN None
    ELSE IF Len(seg) = 1 /\ Head(seg) \in {"+", "-"} THEN None
    ELSE IF Head(seg) = "+" THEN ParseDigits(Tail(seg), 0)
    ELSE ParseDigits(seg, 0)

\* split.next().ok_or(StatusError::InvalidInput)
ParseHost(split) == SplitNext(split, 1)

\* split.next().and_then(|x| x.parse::<u16>().ok()).unwrap_or(25565)
ParsePort(split) ==
    LET seg == SplitNext(split, 2)
        parsed == IF seg = None THEN None ELSE ParseU16(seg[1])
    IN  IF parsed = None THEN DefaultPort ELSE parsed[1]

\* --------------------------------------------------------- status records
Version == [name |-> "1.15.2", protocol |-> 578]
Player == [name |-> "Notch", id |-> "069a79f4"]
Motds == {"hello", "world"}

RECURSIVE PlayerLists(_)
PlayerLists(n) ==
    IF n = 0 THEN {<<>>} ELSE PlayerLists(n - 1) \cup {Append(l, Player) : l \in PlayerLists(n - 1)}

Samples == {None} \cup {Some(l) : l \in PlayerLists(MaxSample)}
Descriptions == {[shape |-> sh, text |-> t] : sh \in {"Plain", "Object"}, t \in Motds}
Favicons == {None, Some("data:image/png")}

AllRecords ==
    {[version |-> Version,
      players |-> [max |-> 20, online |-> IF s = None THEN 0 ELSE Len(s[1]), sample |-> s],
      description |-> d,
      favicon |-> f] : s \in Samples, d \in Descriptions, f \in Favicons}

ProbeRecords ==
    {rec \in AllRecords : /\ rec.players.sample = None
                          /\ rec.favicon = None
                          /\ rec.description.shape = "Plain"}

TimedRecords == {rec \in ProbeRecords : rec.description.text = "hello"}

\* ---------------------------------------------------------- serialization
\* A JSON document is the sequence of tokens the serializer writes.
Punct(p) == <<"punct", p>>
Key(k) == <<"key", k>>
Str(v) == <<"str", v>>
Num(n) == <<"num", n>>
Null == <<"null", "null">>

RECURSIVE Concat(_)
Concat(seqs) == IF seqs = <<>> THEN <<>> ELSE Head(seqs) \o Concat(Tail(seqs))

SerializeVersion(v) ==
    <<Punct("{"), Key("name"), Str(v.name), Key("protocol"), Num(v.protocol), Punct("}")>>

SerializePlayer(p) ==
    <<Punct("{"), Key("name"), Str(p.name), Key("id"), Str(p.id), Punct("}")>>

\* Mutant: sample without skip_serializing_if, None written as null.
SerializeSampleUnskipped(sample) ==
    IF sample = None THEN <<Key("sample"), Null>>
    ELSE <<Key("sample"), Punct("[")>>
         \o Concat([i \in 1..Len(sample[1]) |-> SerializePlayer(sample[1][i])])
         \o <<Punct("]")>>

\* skip_serializing_if = "Option::is_none" on sample: Some(list) is written
\* as the list, whatever its length.
SerializeSample(sample) ==
    IF sample = None THEN <<>>
    ELSE <<Key("sample"), Punct("[")>>
         \o Concat([i \in 1..Len(sample[1]) |-> SerializePlayer(sample[1][i])])
         \o <<Punct("]")>>

SerializePlayers(p) ==
    <<Punct("{"), Key("max"), Num(p.max), Key("online"), Num(p.online)>>
    \o SerializeSample(p.sample)
    \o <<Punct("}")>>

\* Mutant: the description written as its text whatever the variant.
SerializeDescriptionAsText(d) == <<Str(d.text)>>

\* #[serde(untagged)]: each variant is written as its content, Plain as the
\* string and Object as the struct with its text field.
SerializeDescription(d) ==
    IF d.shape = "Plain" THEN <<Str(d.text)>>
    ELSE <<Punct("{"), Key("text"), Str(d.text), Punct("}")>>

SerializeFavicon(favicon) ==
    IF favicon = None THEN <<>> ELSE <<Key("favicon"), Str(favicon[1])>>

SerializeStatusResponse(rec) ==
    <<Punct("{"), Key("version")>> \o SerializeVersion(rec.version)
    \o <<Key("players")>> \o SerializePlayers(rec.players)
    \o <<Key("description")>> \o SerializeDescription(rec.description)
    \o SerializeFavicon(rec.favicon)
    \o <<Punct("}")>>

\* A unit variant is written as its name.
SerializeStatusError(e) == <<Str(e)>>

\* Mutant: the envelope without skip_serializing_if, None written as null.
SerializeResponseUnskipped(resp) ==
    <<Punct("{"), Key("err")>>
    \o (IF resp.err = None THEN <<Null>> ELSE SerializeStatusError(resp.err[1]))
    \o <<Key("result")>>
    \o (IF resp.result = None THEN <<Null>> ELSE SerializeStatusResponse(resp.result[1]))
    \o <<Punct("}")>>

\* struct Response { err, result }, each skipped when None.
SerializeResponse(resp) ==
    <<Punct("{")>>
    \o (IF resp.err = None THEN <<>> ELSE <<Key("err")>> \o SerializeStatusError(resp.err[1]))
    \o (IF resp.result = None THEN <<>>
        ELSE <<Key("result")>> \o SerializeStatusResponse(resp.result[1]))
    \o <<Punct("}")>>

\* ------------------------------------------------------ outcome and shape
\* Result<T, E> is <<"Ok", value>> or <<"Err", error>>.
Ok(x) == <<"Ok", x>>
Err(e) == <<"Err", e>>
IsOk(res) == res[1] = "Ok"

Elapsed == <<"Elapsed">>

\* Mutant: the JSON route keeps the text route's deadline.
DeadlineCopied(ep) == TextDeadline

Deadline(ep) == IF ep = "text" THEN TextDeadline ELSE JsonDeadline

\* Mutant: the client's error is passed on instead of being collapsed.
ClassifyPassingError(t) ==
    IF IsOk(t)
    THEN IF IsOk(t[2]) THEN Ok(t[2][2]) ELSE Err(t[2][2])
    ELSE Err("Timeout")

\* The match on tokio::time::timeout(..).await: t is Ok(ping's result) when
\* ping returned first and Err(Elapsed) when the timer won.
Classify(t) ==
    IF IsOk(t)
    THEN IF IsOk(t[2]) THEN Ok(t[2][2]) ELSE Err("ProtocolError")
    ELSE Err("Timeout")

\* Mutant: the text route answers 200 for failures as the JSON route does.
TextResponseAlwaysOk(res) ==
    IF IsOk(res) THEN [status |-> StatusOk200, body |-> "Online"]
    ELSE [status |-> StatusOk200, body |-> "Offline"]

\* status: match result { Ok(_) => (Status::Ok, "Online"), Err(_) => .. }
TextResponse(res) ==
    IF IsOk(res) THEN [status |-> StatusOk200, body |-> "Online"]
    ELSE [status |-> StatusServiceUnavailable, body |-> "Offline"]

\* status_json: the Response the match builds.
Envelope(res) ==
    IF IsOk(res) THEN [err |-> None, result |-> Some(res[2])]
    ELSE [err |-> Some(res[2]), result |-> None]

\* Json(..) answers 200 with the serialized envelope.
JsonResponse(res) == [status |-> StatusOk200, body |-> SerializeResponse(Envelope(res))]

Shape(ep, res) == IF ep = "text" THEN TextResponse(res) ELSE JsonResponse(res)

\* ------------------------------------------------------------------ state
VARIABLES
    pc,          \* per request: "idle", "connecting", "querying", "done"
    endpoint,    \* the route that took the request
    address,     \* the <address> path segment
    host,        \* Option: the host given to ping
    port,        \* Option: the port given to ping
    elapsed,     \* seconds since the timeout was started
    pingResult,  \* Option: what ping returned to the timeout
    result,      \* Option: the handler's Result<StatusResponse, StatusError>
    response,    \* Option: the HTTP response
    calls,       \* how many times the request called ping
    responses,   \* how many responses the request was given
    conn,        \* the request's connection: "none", "open", "closed"
    opened       \* connections opened by the client, over all requests

vars == <<pc, endpoint, address, host, port, elapsed, pingResult, result,
          response, calls, responses, conn, opened>>

Init ==
    /\ pc = [r \in Reqs |-> "idle"]
    /\ endpoint = [r \in Reqs |-> "text"]
    /\ address = [r \in Reqs |-> <<>>]
    /\ host = [r \in Reqs |-> None]
    /\ port = [r \in Reqs |-> None]
    /\ elapsed = [r \in Reqs |-> 0]
    /\ pingResult = [r \in Reqs |-> None]
    /\ result = [r \in Reqs |-> None]
    /\ response = [r \in Reqs |-> None]
    /\ calls = [r \in Reqs |-> 0]
    /\ responses = [r \in Reqs |-> 0]
    /\ conn = [r \in Reqs |-> "none"]
    /\ opened = 0

Pending(r) == pc[r] \in {"connecting", "querying"}

\* The handler returns: the result is shaped into the route's response.
Respond(r, ep, res) ==
    /\ pc' = [pc EXCEPT ![r] = "done"]
    /\ result' = [result EXCEPT ![r] = Some(res)]
    /\ response' = [response EXCEPT ![r] = Some(Shape(ep, res))]
    /\ responses' = [responses EXCEPT ![r] = @ + 1]

\* A request arrives on route ep with path segment addr: the handler splits
\* the address, takes host and port, and awaits ping under the deadline.
Start(r, ep, addr) ==
    /\ pc[r] = "idle"
    /\ endpoint' = [endpoint EXCEPT ![r] = ep]
    /\ address' = [address EXCEPT ![r] = addr]
    /\ LET split == Split(addr)
           h == ParseHost(split)
       IN  IF h = None
           THEN /\ Respond(r, ep, Err("InvalidInput"))
                /\ UNCHANGED <<host, port, calls>>
           ELSE /\ host' = [host EXCEPT ![r] = h]
                /\ port' = [port EXCEPT ![r] = Some(ParsePort(split))]
                /\ calls' = [calls EXCEPT ![r] = @ + 1]
                /\ pc' = [pc EXCEPT ![r] = "connecting"]
                /\ UNCHANGED <<result, response, responses>>
    /\ UNCHANGED <<elapsed, pingResult, conn, opened>>

\* connection_config.connect().await succeeds: a fresh connection.
ConnectOk(r) ==
    /\ pc[r] = "connecting"
    /\ pc' = [pc EXCEPT ![r] = "querying"]
    /\ conn' = [conn EXCEPT ![r] = "open"]
    /\ opened' = opened + 1
    /\ UNCHANGED <<endpoint, address, host, port, elapsed, pingResult, result,
                   response, calls, responses>>

\* ping returned x: the timeout yields Ok(x) and the handler classifies it.
PingReturns(r, x) ==
    /\ pingResult' = [pingResult EXCEPT ![r] = Some(x)]
    /\ Respond(r, endpoint[r], Classify(Ok(x)))
    /\ UNCHANGED <<endpoint, address, host, port, elapsed, calls, opened>>

\* Mutant: a failed connect is retried with a second call of the client.
ConnectErrRetried(r) ==
    /\ pc[r] = "connecting"
    /\ calls' = [calls EXCEPT ![r] = @ + 1]
    /\ UNCHANGED <<pc, endpoint, address, host, port, elapsed, pingResult, result,
                   response, responses, conn, opened>>

\* connect().await? fails: ping returns the error.
ConnectErr(r) ==
    /\ pc[r] = "connecting"
    /\ PingReturns(r, Err("ConnectFailed"))
    /\ UNCHANGED conn

\* status().await succeeds: ping returns Ok(status.status), dropping the
\* connection.
StatusOk(r, rec) ==
    /\ pc[r] = "querying"
    /\ PingReturns(r, Ok(rec))
    /\ conn' = [conn EXCEPT ![r] = "closed"]

\* status().await? fails: ping returns the error, dropping the connection.
StatusErr(r) ==
    /\ pc[r] = "querying"
    /\ PingReturns(r, Err("StatusFailed"))
    /\ conn' = [conn EXCEPT ![r] = "closed"]

\* A second passes while the handler awaits.
Tick(r) ==
    /\ Pending(r)
    /\ elapsed[r] < Deadline(endpoint[r])
    /\ elapsed' = [elapsed EXCEPT ![r] = @ + 1]
    /\ UNCHANGED <<pc, endpoint, address, host, port, pingResult, result,
                   response, calls, responses, conn, opened>>

\* Mutant: ping is awaited without a timeout.
DeadlineNeverFires(r) == FALSE /\ UNCHANGED vars

\* The deadline passes with ping still pending: the timeout yields
\* Err(Elapsed) and drops the ping future with its connection.
DeadlineFires(r) ==
    /\ Pending(r)
    /\ elapsed[r] >= Deadline(endpoint[r])
    /\ Respond(r, endpoint[r], Classify(Err(Elapsed)))
    /\ conn' = [conn EXCEPT ![r] = IF @ = "open" THEN "closed" ELSE @]
    /\ UNCHANGED <<endpoint, address, host, port, elapsed, pingResult, calls, opened>>

\* Requests on both routes, handled concurrently.
Next ==
    \E r \in Reqs :
        \/ pc[r] = "idle" /\ \E ep \in Endpoints, addr \in ProbeAddresses : Start(r, ep, addr)
        \/ ConnectOk(r)
        \/ ConnectErr(r)
        \/ \E rec \in ProbeRecords : StatusOk(r, rec)
        \/ StatusErr(r)
        \/ Tick(r)
        \/ DeadlineFires(r)

Spec == Init /\ [][Next]_vars

\* The same requests with one address and one record, under a runtime that
\* advances time and fires due timers.
NextTimed ==
    \E r \in Reqs :
        \/ pc[r] = "idle" /\ \E ep \in Endpoints : Start(r, ep, JsonAddress)
        \/ ConnectOk(r)
        \/ ConnectErr(r)
        \/ \E rec \in TimedRecords : StatusOk(r, rec)
        \/ StatusErr(r)
        \/ Tick(r)
        \/ DeadlineFires(r)

FairSpec ==
    /\ Init /\ [][NextTimed]_vars
    /\ \A r \in Reqs : WF_vars(Tick(r)) /\ WF_vars(DeadlineFires(r))

\* One request with any address: the parser's cases.
NextParse ==
    \/ pc[1] = "idle" /\ \E ep \in Endpoints, addr \in AllAddresses : Start(1, ep, addr)
    \/ ConnectOk(1)
    \/ ConnectErr(1)
    \/ \E rec \in ProbeRecords : StatusOk(1, rec)
    \/ StatusErr(1)

SpecParse == Init /\ [][NextParse]_vars

\* One request with any status record: the serializer's cases.
NextJson ==
    \/ pc[1] = "idle" /\ \E ep \in Endpoints : Start(1, ep, JsonAddress)
    \/ ConnectOk(1)
    \/ ConnectErr(1)
    \/ \E rec \in AllRecords : StatusOk(1, rec)
    \/ StatusErr(1)
    \/ Tick(1)
    \/ DeadlineFires(1)

SpecJson == Init /\ [][NextJson]_vars

\* ================================================================ claims
Done(r) == pc[r] = "done"
TheResult(r) == result[r][1]
TheResponse(r) == response[r][1]

\* ---- the address, read by position rather than by splitting
Colons(s) == {i \in 1..Len(s) : s[i] = ":"}
Least(S) == CHOOSE i \in S : \A j \in S : i <= j
FirstColon(s) == IF Colons(s) = {} THEN Len(s) + 1 ELSE Least(Colons(s))
HostPart(s) == SubSeq(s, 1, FirstColon(s) - 1)
HasPortPart(s) == Colons(s) # {}
PortPart(s) ==
    LET rest == {i \in Colons(s) : i > FirstColon(s)}
        stop == IF rest = {} THEN Len(s) + 1 ELSE Least(rest)
    IN  SubSeq(s, FirstColon(s) + 1, stop - 1)

RECURSIVE Pow10(_)
Pow10(n) == IF n = 0 THEN 1 ELSE 10 * Pow10(n - 1)

RECURSIVE DecimalValue(_)
DecimalValue(d) ==
    IF d = <<>> THEN 0
    ELSE DigitVal(Head(d)) * Pow10(Len(d) - 1) + DecimalValue(Tail(d))

Unsigned(seg) == IF seg # <<>> /\ Head(seg) = "+" THEN Tail(seg) ELSE seg

\* A decimal string of an unsigned 16-bit value, as Rust reads one: digits,
\* with leading zeros and one leading "+" allowed.
ValidU16(seg) ==
    /\ Unsigned(seg) # <<>>
    /\ \A i \in 1..Len(Unsigned(seg)) : IsDigit(Unsigned(seg)[i])
    /\ DecimalValue(Unsigned(seg)) <= U16Max

ExpectedPort(s) ==
    IF HasPortPart(s) /\ ValidU16(PortPart(s)) THEN DecimalValue(Unsigned(PortPart(s)))
    ELSE DefaultPort

\* C1 (as claimed): a request whose address has an empty host part is
\* classified InvalidInput and the protocol client is not invoked for it.
C1_EmptyHostIsInvalidInput ==
    \A r \in Reqs :
        (pc[r] # "idle" /\ HostPart(address[r]) = <<>>) =>
            /\ calls[r] = 0
            /\ Done(r)
            /\ TheResult(r) = Err("InvalidInput")

\* C2: with a non-empty host the client is called with port N when the
\* second segment is a valid unsigned 16-bit decimal string N and with 25565
\* otherwise; the request is never InvalidInput; later segments are ignored.
C2_PortParsedOrDefault ==
    \A r \in Reqs :
        (pc[r] # "idle" /\ HostPart(address[r]) # <<>>) =>
            /\ calls[r] = 1
            /\ host[r] = Some(HostPart(address[r]))
            /\ port[r] = Some(ExpectedPort(address[r]))
            /\ (Done(r) => TheResult(r) # Err("InvalidInput"))

\* The out-of-range port of "a:99999" fell back to 25565 and the client was
\* called.
C2_Witness ==
    /\ pc[1] = "connecting"
    /\ address[1] = <<"a", ":", "9", "9", "9", "9", "9">>
    /\ port[1] = Some(DefaultPort)
    /\ calls[1] = 1

\* C3: the outcome is Timeout exactly when ping had not returned when the
\* deadline (2 s on the text route, 5 s on the JSON route) passed; an exchange
\* that ends earlier is never Timeout, and a request that was answered keeps
\* its answer: nothing of the dropped exchange is seen afterwards.
C3_TimeoutIffDeadline ==
    /\ [](\A r \in Reqs :
            Done(r) =>
                (TheResult(r) = Err("Timeout")
                    <=> /\ pingResult[r] = None
                        /\ calls[r] = 1
                        /\ \/ endpoint[r] = "text" /\ elapsed[r] = 2
                           \/ endpoint[r] = "json" /\ elapsed[r] = 5))
    /\ [][\A r \in Reqs :
            Done(r) => /\ result'[r] = result[r]
                       /\ response'[r] = response[r]
                       /\ pingResult'[r] = pingResult[r]
                       /\ conn'[r] = conn[r]]_vars

\* A JSON request timed out after 5 s while the query was in flight, and its
\* connection was dropped.
C3_Witness ==
    \E r \in Reqs :
        /\ Done(r) /\ endpoint[r] = "json" /\ elapsed[r] = 5
        /\ TheResult(r) = Err("Timeout")
        /\ pingResult[r] = None /\ conn[r] = "closed"

\* C4: when ping returns before the deadline the outcome is Success with the
\* client's record if it returned Ok and ProtocolError for any client error;
\* no other tag, and nothing of the client's error, is exposed.
C4_SuccessOrProtocolError ==
    \A r \in Reqs :
        Done(r) =>
            /\ pingResult[r] # None =>
                 LET x == pingResult[r][1]
                 IN  /\ x[1] = "Ok" => TheResult(r) = <<"Ok", x[2]>>
                     /\ x[1] = "Err" => TheResult(r) = <<"Err", "ProtocolError">>
            /\ TheResult(r)[1] = "Err" =>
                 TheResult(r)[2] \in {"ProtocolError", "Timeout", "InvalidInput"}

\* One request failed at connect, another at the status query; both are
\* ProtocolError.
C4_Witness ==
    \E r1, r2 \in Reqs :
        /\ Done(r1) /\ pingResult[r1] = Some(Err("ConnectFailed"))
        /\ Done(r2) /\ pingResult[r2] = Some(Err("StatusFailed"))
        /\ TheResult(r1) = Err("ProtocolError")
        /\ TheResult(r2) = Err("ProtocolError")

\* C5: the text route answers 200 "Online" exactly on Success and 503
\* "Offline" on every failure, the same response for each failure variant.
C5_TextOnlineOffline ==
    /\ \A r \in Reqs :
        (Done(r) /\ endpoint[r] = "text") =>
            /\ TheResult(r)[1] = "Ok" =>
                 TheResponse(r) = [status |-> 200, body |-> "Online"]
            /\ TheResult(r)[1] = "Err" =>
                 TheResponse(r) = [status |-> 503, body |-> "Offline"]
    /\ \A e \in {"ProtocolError", "Timeout", "InvalidInput"} :
        TextResponse(<<"Err", e>>) = [status |-> 503, body |-> "Offline"]

\* Text requests that ended in Timeout and in ProtocolError got the same
\* response.
C5_Witness ==
    \E r1, r2 \in Reqs :
        /\ endpoint[r1] = "text" /\ endpoint[r2] = "text"
        /\ Done(r1) /\ TheResult(r1) = Err("Timeout")
        /\ Done(r2) /\ TheResult(r2) = Err("ProtocolError")
        /\ TheResponse(r1) = TheResponse(r2)
        /\ TheResponse(r1).status = 503

\* C9: a request calls the client at most once, also after a protocol
\* failure or a timeout, and every connection is opened for one request.
C9_OneAttemptPerRequest ==
    /\ \A r \in Reqs :
        /\ calls[r] <= 1
        /\ pc[r] # "idle" => calls[r] = 1
    /\ opened = Cardinality({r \in Reqs : conn[r] # "none"})

\* After a timeout of one request and a protocol failure of another each has
\* called the client once.
C9_Witness ==
    \E r1, r2 \in Reqs :
        /\ Done(r1) /\ TheResult(r1) = Err("Timeout") /\ calls[r1] = 1
        /\ Done(r2) /\ TheResult(r2) = Err("ProtocolError") /\ calls[r2] = 1
        /\ conn[r1] = "closed" /\ conn[r2] = "closed"
        /\ opened = 2

\* C10: every request is answered, exactly once and no later than its
\* route's deadline, even if the client never returns, provided time advances
\* and the due timer fires.
C10_AlwaysAnswered ==
    /\ \A r \in Reqs : (pc[r] # "idle") ~> Done(r)
    /\ [](\A r \in Reqs :
            /\ responses[r] = (IF Done(r) THEN 1 ELSE 0)
            /\ (response[r] # None) <=> Done(r)
            /\ endpoint[r] = "text" => elapsed[r] <= 2
            /\ endpoint[r] = "json" => elapsed[r] <= 5)

\* A text request whose connect never finished was answered at 2 s.
C10_Witness ==
    \E r \in Reqs :
        /\ Done(r) /\ endpoint[r] = "text" /\ elapsed[r] = 2
        /\ conn[r] = "none" /\ pingResult[r] = None
        /\ responses[r] = 1
        /\ TheResponse(r).body = "Offline"

\* ---- reading a serialized document
IsOpen(t) == t \in {Punct("{"), Punct("[")}
IsClose(t) == t \in {Punct("}"), Punct("]")}

\* Nesting depth of the token at index i.
Depth(body, i) ==
    Cardinality({j \in 1..(i - 1) : IsOpen(body[j])})
    - Cardinality({j \in 1..(i - 1) : IsClose(body[j])})

KeysAt(body, d) ==
    {body[i][2] : i \in {j \in 1..Len(body) : body[j][1] = "key" /\ Depth(body, j) = d}}

KeyIndex(body, k, d) ==
    CHOOSE i \in 1..Len(body) : body[i] = Key(k) /\ Depth(body, i) = d

\* The tokens of the value written for key k at depth d.
ValueOf(body, k, d) ==
    LET i == KeyIndex(body, k, d) + 1
        end == IF IsOpen(body[i])
               THEN Least({j \in i..Len(body) : IsClose(body[j]) /\ Depth(body, j + 1) = d})
               ELSE i
    IN  SubSeq(body, i, end)

Tokens(body) == {body[i] : i \in 1..Len(body)}

JsonOk(r) == Done(r) /\ endpoint[r] = "json" /\ TheResult(r)[1] = "Ok"
Body(r) == TheResponse(r).body
Record(r) == TheResult(r)[2]
PlainTwin(rec) == [rec EXCEPT !.description.shape = "Plain"]

\* C6: every JSON response has status 200 and an envelope holding exactly
\* one of err and result: result exactly on Success, else err with one of
\* the three tags.
C6_EnvelopeExactlyOne ==
    \A r \in Reqs :
        (Done(r) /\ endpoint[r] = "json") =>
            /\ TheResponse(r).status = 200
            /\ KeysAt(Body(r), 1) \in {{"err"}, {"result"}}
            /\ KeysAt(Body(r), 1) = {"result"} <=> TheResult(r)[1] = "Ok"
            /\ KeysAt(Body(r), 1) = {"err"} =>
                 /\ ValueOf(Body(r), "err", 1) = <<Str(TheResult(r)[2])>>
                 /\ TheResult(r)[2] \in {"ProtocolError", "InvalidInput", "Timeout"}

\* A JSON request that timed out was answered 200 with err alone.
C6_Witness ==
    /\ Done(1) /\ endpoint[1] = "json"
    /\ TheResult(1) = Err("Timeout")
    /\ TheResponse(1).status = 200
    /\ Body(1) = <<Punct("{"), Key("err"), Str("Timeout"), Punct("}")>>

C8_EmptySampleOmitted ==
    \A r \in Reqs :
        JsonOk(r) =>
            /\ Record(r).players.sample \in {None, Some(<<>>)} =>
                 "sample" \notin KeysAt(Body(r), 3)
            /\ Record(r).favicon = None => "favicon" \notin KeysAt(Body(r), 2)
            /\ Null \notin Tokens(Body(r))

\* C8 (amended): sample is omitted exactly when the player sample is absent
\* and favicon exactly when favicon is absent; a sample that is present is
\* written as its list, the empty one as the empty list; nothing is written
\* as null.
C8_AbsentOmitted ==
    \A r \in Reqs :
        JsonOk(r) =>
            LET sample == Record(r).players.sample
                favicon == Record(r).favicon
            IN  /\ "sample" \in KeysAt(Body(r), 3) <=> sample # None
                /\ sample = Some(<<>>) =>
                     ValueOf(Body(r), "sample", 3) = <<Punct("["), Punct("]")>>
                /\ (sample # None /\ sample # Some(<<>>)) =>
                     Len(ValueOf(Body(r), "sample", 3)) = 2 + 6 * Len(sample[1])
                /\ "favicon" \in KeysAt(Body(r), 2) <=> favicon # None
                /\ favicon # None => ValueOf(Body(r), "favicon", 2) = <<Str(favicon[1])>>
                /\ Null \notin Tokens(Body(r))

\* A record with an empty sample and no favicon was serialized.
C8_Witness ==
    /\ JsonOk(1)
    /\ Record(1).players.sample = Some(<<>>)
    /\ Record(1).favicon = None
    /\ "sample" \in KeysAt(Body(1), 3)
    /\ "favicon" \notin KeysAt(Body(1), 2)

====
